---- MODULE Spec2Model ----
(***************************************************************************)
(* Model of the invoice reconciliation app (src/app.py): the header        *)
(* locator detect_header_row, the reconciler reconcile, the results        *)
(* summary, and the Streamlit session around them (two loaded tables and   *)
(* the single session_state["recon_result"] slot).                         *)
(*                                                                         *)
(* Cells are a tagged union {missing, number, text}.  A number cell n      *)
(* stands for the float n * 0.5e-8, so that the tolerance 1e-8 of line 57  *)
(* is the integer Epsilon = 2 and every subtraction of two cells of the    *)
(* model is exact in double arithmetic.  A text cell i stands for the i-th *)
(* string of a fixed, lexicographically ordered list of sample strings     *)
(* ("K1" < "K2" < ...), none of which pandas reads as a missing marker.    *)
(* A column is as read_csv produces it: numbers and missing cells          *)
(* (a numeric dtype), or strings and missing cells (the object dtype).     *)
(***************************************************************************)
EXTENDS Integers, Sequences, FiniteSets, TLC

VARIABLES df1, df2, trig, recon_result, report, shown, sheet, header

vars == <<df1, df2, trig, recon_result, report, shown, sheet, header>>

--------------------------------------------------------------------------
(* Bounds of the explored input space *)

\* rows per table handed to reconcile
MaxRows == 2
\* number cells are 0 and 2^k for k in 0..MaxExp (in units of 0.5e-8)
MaxExp == 1
\* abs(Difference) < 1e-8, in units of 0.5e-8
Epsilon == 2

--------------------------------------------------------------------------
(* Cells *)

Missing == [t |-> "missing", v |-> 0]
Num(n) == [t |-> "number", v |-> n]
Text(i) == [t |-> "text", v |-> i]

\* pd.isna / notnull on one cell
isna(c) == c.t = "missing"

\* isinstance(val, str)
isstr(c) == c.t = "text"

Amounts == {0} \cup {2 ^ k : k \in 0..MaxExp}

NumCells == {Num(n) : n \in Amounts}

\* the invoice numbers "K1" and "K2"
KeyCells == {Text(1), Text(2)}

\* the one non-numeric string used in value columns ("abc")
BadText == Text(3)

--------------------------------------------------------------------------
(* Tables: a frame holds its column labels and its rows, each row a record *)
(* over the columns.  A loaded file has the columns ID and Amt and at least *)
(* one row; an empty spreadsheet sheet loads as a frame without columns.    *)

Columns == {"ID", "Amt"}

ColumnOf(df, c) == [i \in 1..Len(df) |-> df[i][c]]

\* object dtype: the column holds a string
IsObject(col) == \E i \in 1..Len(col) : isstr(col[i])

SeqsUpTo(S, n) == UNION {[1..k -> S] : k \in 1..n}

\* a column as read_csv types it: all numbers or all strings, with gaps
Homogeneous(col) ==
    \/ \A i \in 1..Len(col) : col[i].t \in {"missing", "number"}
    \/ \A i \in 1..Len(col) : col[i].t \in {"missing", "text"}

TablesOver(ids, amts, n) ==
    {df \in SeqsUpTo([ID : ids, Amt : amts], n) :
        Homogeneous(ColumnOf(df, "ID")) /\ Homogeneous(ColumnOf(df, "Amt"))}

--------------------------------------------------------------------------
(* Reconciler: reconcile, src/app.py lines 50-60 *)

\* df[[key, val]] raises KeyError unless both names are columns of df
HasColumns(df, key, val) == key \in df.columns /\ val \in df.columns

\* the column labels after rename(columns={key: 'InvoiceID', val: valName}):
\* with key = val the dict literal keeps only its last entry, so both
\* projected columns are renamed to valName and none is called InvoiceID
RenamedColumns(key, val, valName) ==
    IF key = val THEN {valName} ELSE {"InvoiceID", valName}

\* df[[key, val]].rename(...): every row passes through, in order
Project(df, key, val) ==
    [i \in 1..Len(df.rows) |->
        [InvoiceID |-> df.rows[i][key], Value |-> df.rows[i][val]]]

\* pd.merge refuses to join an object key column with a numeric one
\* (ValueError: You are trying to merge on object and float64 columns)
KeyDtypesDiffer(left, right) ==
    IsObject(ColumnOf(left, "InvoiceID")) # IsObject(ColumnOf(right, "InvoiceID"))

\* order of the join keys in the output of an outer merge: keys sorted,
\* the missing key last
KeyLess(a, b) ==
    IF isna(a) THEN FALSE
    ELSE IF isna(b) THEN TRUE
    ELSE IF a.t # b.t THEN a.t = "number"
    ELSE a.v < b.v

RECURSIVE SortedKeys(_)
SortedKeys(S) ==
    IF S = {} THEN <<>>
    ELSE LET m == CHOOSE a \in S : \A b \in S \ {a} : KeyLess(a, b)
         IN <<m>> \o SortedKeys(S \ {m})

KeysOf(rows) == {rows[i].InvoiceID : i \in 1..Len(rows)}

WithKey(rows, k) == SelectSeq(rows, LAMBDA r : r.InvoiceID = k)

\* duplicates dropped before the join: one output row per key
JoinKey_first(left, right, k) ==
    LET ls == WithKey(left, k)
        rs == WithKey(right, k)
    IN <<[InvoiceID |-> k,
          Value1 |-> IF ls = <<>> THEN Missing ELSE ls[1].Value,
          Value2 |-> IF rs = <<>> THEN Missing ELSE rs[1].Value]>>

\* the output rows of one key: every pairing of the two sides' rows, or the
\* rows of the only side that has the key with the other value missing
JoinKey(left, right, k) ==
    LET ls == WithKey(left, k)
        rs == WithKey(right, k)
        m == Len(ls)
        n == Len(rs)
    IN IF n = 0
       THEN [i \in 1..m |->
               [InvoiceID |-> k, Value1 |-> ls[i].Value, Value2 |-> Missing]]
       ELSE IF m = 0
       THEN [j \in 1..n |->
               [InvoiceID |-> k, Value1 |-> Missing, Value2 |-> rs[j].Value]]
       ELSE [x \in 1..(m * n) |->
               [InvoiceID |-> k,
                Value1 |-> ls[((x - 1) \div n) + 1].Value,
                Value2 |-> rs[((x - 1) % n) + 1].Value]]

RECURSIVE JoinKeys(_, _, _)
JoinKeys(left, right, ks) ==
    IF ks = <<>> THEN <<>>
    ELSE JoinKey(left, right, Head(ks)) \o JoinKeys(left, right, Tail(ks))

\* how='inner': only the keys both tables have
merge_inner(left, right) ==
    JoinKeys(left, right, SortedKeys(KeysOf(left) \cap KeysOf(right)))

\* how='left': only the keys of the first table
merge_left(left, right) ==
    JoinKeys(left, right, SortedKeys(KeysOf(left)))

\* pd.merge(df1, df2, on='InvoiceID', how='outer'); missing keys match
\* each other
merge(left, right) ==
    JoinKeys(left, right, SortedKeys(KeysOf(left) \cup KeysOf(right)))

\* merged['Value1'] - merged['Value2'] raises TypeError when some row has
\* two present values of which one is a string; rows with a missing side are
\* masked out of the subtraction and get a missing Difference
SubtractFails(merged) ==
    \E i \in 1..Len(merged) :
        /\ ~isna(merged[i].Value1) /\ ~isna(merged[i].Value2)
        /\ (isstr(merged[i].Value1) \/ isstr(merged[i].Value2))

\* the operands of the subtraction exchanged
Difference_reversed(v1, v2) ==
    IF isna(v1) \/ isna(v2) THEN Missing ELSE Num(v2.v - v1.v)

Difference(v1, v2) ==
    IF isna(v1) \/ isna(v2) THEN Missing ELSE Num(v1.v - v2.v)

Abs(x) == IF x < 0 THEN 0 - x ELSE x

\* the tolerance test written with <=
Status_inclusive(d) ==
    IF isna(d) \/ Abs(d.v) <= Epsilon THEN "Match" ELSE "Mismatch"

\* 'Match' if pd.isna(row['Difference']) or abs(row['Difference']) < 1e-8
Status(d) ==
    IF isna(d) \/ Abs(d.v) < Epsilon THEN "Match" ELSE "Mismatch"

Classify(merged) ==
    [i \in 1..Len(merged) |->
        LET d == Difference(merged[i].Value1, merged[i].Value2)
        IN [InvoiceID |-> merged[i].InvoiceID,
            Value1 |-> merged[i].Value1,
            Value2 |-> merged[i].Value2,
            Difference |-> d,
            Status |-> Status(d)]]

Raise(e) == [ok |-> FALSE, err |-> e, rows |-> <<>>]

Return(rows) == [ok |-> TRUE, err |-> "none", rows |-> rows]

reconcile(d1, d2, key1, val1, key2, val2) ==
    IF ~HasColumns(d1, key1, val1) THEN Raise("KeyError")
    ELSE IF ~HasColumns(d2, key2, val2) THEN Raise("KeyError")
    ELSE IF "InvoiceID" \notin RenamedColumns(key1, val1, "Value1")
         THEN Raise("KeyError")
    ELSE IF "InvoiceID" \notin RenamedColumns(key2, val2, "Value2")
         THEN Raise("KeyError")
    ELSE LET left == Project(d1, key1, val1)
             right == Project(d2, key2, val2)
         IN IF KeyDtypesDiffer(left, right) THEN Raise("ValueError")
            ELSE LET merged == merge(left, right)
                 IN IF SubtractFails(merged) THEN Raise("TypeError")
                    ELSE Return(Classify(merged))

--------------------------------------------------------------------------
(* Results summary, src/app.py lines 116-127 *)

CountStatus(rows, st) == Cardinality({i \in 1..Len(rows) : rows[i].Status = st})

match_count(rows) == CountStatus(rows, "Match")

mismatch_count(rows) == CountStatus(rows, "Mismatch")

total_count(rows) == Len(rows)

\* what the results section puts on screen
NothingShown == [present |-> FALSE, matches |-> 0, mismatches |-> 0, total |-> 0]

Summary(rows) ==
    [present |-> TRUE,
     matches |-> match_count(rows),
     mismatches |-> mismatch_count(rows),
     total |-> total_count(rows)]

--------------------------------------------------------------------------
(* Header locator: detect_header_row, src/app.py lines 24-32 *)

\* nrows=20 of the preview read
ScanLimit == 20

\* blank rows between the banner and the table, at most
MaxPad == 21
\* rows that follow the blank rows, at most
MaxTail == 2

SheetCells == {Missing, Text(1), Num(1)}

RowKinds == [1..3 -> SheetCells]

BlankRow == [c \in 1..3 |-> Missing]

BannerRow == [c \in 1..3 |-> IF c = 1 THEN Text(1) ELSE Missing]

Banners == {<<>>, <<BannerRow>>}

Tails == {<<>>} \cup SeqsUpTo(RowKinds, MaxTail)

\* an optional banner line, n blank rows, then the tail
Sheet(b, n, tl) == b \o [i \in 1..n |-> BlankRow] \o tl

\* a file whose sheet cannot be read: pd.read_excel raises
Unreadable == [readable |-> FALSE, rows |-> <<>>]

Readable(rows) == [readable |-> TRUE, rows |-> rows]

\* row.notnull().sum()
NotNullCount(row) == Cardinality({c \in 1..Len(row) : ~isna(row[c])})

\* row.notnull().sum() >= 2 and all(isinstance(val, str) or pd.isna(val))
IsHeaderRow(row) ==
    /\ NotNullCount(row) >= 2
    /\ \A c \in 1..Len(row) : isstr(row[c]) \/ isna(row[c])

Min(a, b) == IF a <= b THEN a ELSE b

\* the preview read without nrows
PreviewLen_unbounded(rows) == Len(rows)

\* rows 0 .. nrows-1 of the sheet, numbered from 0 by iterrows
PreviewLen(rows) == Min(Len(rows), ScanLimit)

detect_header_row(file) ==
    IF ~file.readable THEN 0
    ELSE LET n == PreviewLen(file.rows)
             hits == {i \in 0..(n - 1) : IsHeaderRow(file.rows[i + 1])}
         IN IF hits = {} THEN 0
            ELSE CHOOSE i \in hits : \A j \in hits : i <= j

--------------------------------------------------------------------------
(* Session state *)

\* read_file returned None, or a file is not uploaded yet
NoTable == [loaded |-> FALSE, columns |-> {}, rows |-> <<>>]

Loaded(rows) == [loaded |-> TRUE, columns |-> Columns, rows |-> rows]

\* pd.read_excel of a sheet without cells: no columns, no rows
EmptySheet == [loaded |-> TRUE, columns |-> {}, rows |-> <<>>]

\* what st.selectbox returns when it has no options: None
NoOption == "None"

\* the values st.selectbox(label, df.columns) can return
Options(df) == IF df.columns = {} THEN {NoOption} ELSE df.columns

NoResult == [present |-> FALSE, rows |-> <<>>]

Stored(rows) == [present |-> TRUE, rows |-> rows]

NoTrigger == [key1 |-> "", val1 |-> "", key2 |-> "", val2 |-> ""]

Selection(k1, v1, k2, v2) == [key1 |-> k1, val1 |-> v1, key2 |-> k2, val2 |-> v2]

NoSheet == Readable(<<>>)

Init ==
    /\ df1 = NoTable
    /\ df2 = NoTable
    /\ trig = NoTrigger
    /\ recon_result = NoResult
    /\ report = "none"
    /\ shown = NothingShown
    /\ sheet = NoSheet
    /\ header = 0

\* lines 113-123: the results section of a script run that was not stopped
ShowResults(res) == IF res.present THEN Summary(res.rows) ELSE NothingShown

\* a handler that drops the retained result when the run fails
RunReconciliation_clears(k1, v1, k2, v2) ==
    /\ df1.loaded /\ df2.loaded
    /\ LET r == reconcile(df1, df2, k1, v1, k2, v2)
       IN IF r.ok
          THEN /\ recon_result' = Stored(r.rows)
               /\ report' = "success"
               /\ shown' = ShowResults(Stored(r.rows))
          ELSE /\ recon_result' = NoResult
               /\ report' = "error"
               /\ shown' = NothingShown
    /\ trig' = Selection(k1, v1, k2, v2)
    /\ UNCHANGED <<df1, df2, sheet, header>>

\* a handler that appends the new result to the retained one
RunReconciliation_appends(k1, v1, k2, v2) ==
    /\ df1.loaded /\ df2.loaded
    /\ LET r == reconcile(df1, df2, k1, v1, k2, v2)
       IN IF r.ok
          THEN /\ recon_result' = Stored(recon_result.rows \o r.rows)
               /\ report' = "success"
               /\ shown' = ShowResults(Stored(recon_result.rows \o r.rows))
          ELSE /\ recon_result' = recon_result
               /\ report' = "error"
               /\ shown' = NothingShown
    /\ trig' = Selection(k1, v1, k2, v2)
    /\ UNCHANGED <<df1, df2, sheet, header>>

\* lines 102-110: the button handler on the loaded tables
RunReconciliation(k1, v1, k2, v2) ==
    /\ df1.loaded /\ df2.loaded
    /\ LET r == reconcile(df1, df2, k1, v1, k2, v2)
       IN IF r.ok
          THEN /\ recon_result' = Stored(r.rows)
               /\ report' = "success"
               /\ shown' = ShowResults(Stored(r.rows))
          ELSE /\ recon_result' = recon_result
               /\ report' = "error"
               /\ shown' = NothingShown
    /\ trig' = Selection(k1, v1, k2, v2)
    /\ UNCHANGED <<df1, df2, sheet, header>>

\* lines 71-94 on a change of the first uploader: the script reruns, reads
\* the file again (None when it cannot be read) and shows the retained result
UploadFile1(t) ==
    /\ df1' = t
    /\ trig' = NoTrigger
    /\ report' = "none"
    /\ shown' = ShowResults(recon_result)
    /\ UNCHANGED <<df2, recon_result, sheet, header>>

UploadFile2(t) ==
    /\ df2' = t
    /\ trig' = NoTrigger
    /\ report' = "none"
    /\ shown' = ShowResults(recon_result)
    /\ UNCHANGED <<df1, recon_result, sheet, header>>

\* any other widget interaction: the script reruns without the button
Rerun ==
    /\ trig' = NoTrigger
    /\ report' = "none"
    /\ shown' = ShowResults(recon_result)
    /\ UNCHANGED <<df1, df2, recon_result, sheet, header>>

\* the tables offered to the uploaders of the session
SessionTables ==
    TablesOver({Text(1)}, {Num(0), Num(Epsilon), BadText}, 1)
        \cup TablesOver({Text(2)}, {Num(0)}, 1)

Uploads == {NoTable, EmptySheet} \cup {Loaded(t) : t \in SessionTables}

Next ==
    \/ \E t \in Uploads : UploadFile1(t)
    \/ \E t \in Uploads : UploadFile2(t)
    \/ \E k1, v1 \in Options(df1), k2, v2 \in Options(df2) :
          RunReconciliation(k1, v1, k2, v2)
    \/ Rerun

Spec == Init /\ [][Next]_vars

--------------------------------------------------------------------------
(* reconcile as a function of its arguments *)

\* tables that vary the keys: repeated, distinct and missing keys, with
\* amounts that are equal or a full tolerance apart
JoinTables ==
    TablesOver(KeyCells \cup {Missing}, {Num(0), Num(Epsilon)}, MaxRows)

\* tables that vary the values under one key: numbers, gaps and a string
ValueTables ==
    TablesOver({Text(1)}, NumCells \cup {Missing, BadText}, MaxRows)


\* the key and value columns of each table the usual way round or swapped
ReconcileSelections ==
    {Selection(p[1], p[2], q[1], q[2]) :
        p, q \in {<<"ID", "Amt">>, <<"Amt", "ID">>}}

\* one call reconcile(t1, t2, ...) and the summary of what it returns
ReconcileCall(t1, t2, s) ==
    /\ df1' = Loaded(t1)
    /\ df2' = Loaded(t2)
    /\ trig' = s
    /\ LET r == reconcile(Loaded(t1), Loaded(t2),
                           s.key1, s.val1, s.key2, s.val2)
       IN IF r.ok
          THEN /\ recon_result' = Stored(r.rows)
               /\ report' = "success"
               /\ shown' = ShowResults(Stored(r.rows))
          ELSE /\ recon_result' = NoResult
               /\ report' = "error"
               /\ shown' = NothingShown
    /\ UNCHANGED <<sheet, header>>

CallOnJoinTables ==
    /\ report = "none"
    /\ \E t1, t2 \in JoinTables, s \in ReconcileSelections :
          ReconcileCall(t1, t2, s)

CallOnValueTables ==
    /\ report = "none"
    /\ \E t1, t2 \in ValueTables, s \in ReconcileSelections :
          ReconcileCall(t1, t2, s)

NextReconcile == CallOnValueTables \/ CallOnJoinTables

SpecReconcile == Init /\ [][NextReconcile]_vars

--------------------------------------------------------------------------
(* detect_header_row as a function of the sheet *)

DetectHeader(file) ==
    /\ sheet' = file
    /\ header' = detect_header_row(sheet')
    /\ UNCHANGED <<df1, df2, trig, recon_result, report, shown>>

\* the locator on a sheet that pd.read_excel can read
DetectReadable ==
    /\ sheet = NoSheet
    /\ \E b \in Banners, n \in 0..MaxPad, tl \in Tails :
          DetectHeader(Readable(Sheet(b, n, tl)))

\* the locator on a sheet whose read raises
DetectUnreadable ==
    /\ sheet = NoSheet
    /\ DetectHeader(Unreadable)

NextHeader == DetectReadable \/ DetectUnreadable

SpecHeader == Init /\ [][NextHeader]_vars

--------------------------------------------------------------------------
(* Properties of reconcile, checked under SpecReconcile *)

Returned == report = "success"

Out == recon_result.rows

InLeft == Project(df1, trig.key1, trig.val1)

InRight == Project(df2, trig.key2, trig.val2)

InKeys == KeysOf(InLeft) \cup KeysOf(InRight)

Count(rows, P(_)) == Cardinality({i \in 1..Len(rows) : P(rows[i])})

\* C1: reconcile is a full outer join on the key. Whenever it returns, every
\* key value of either key column is the InvoiceID of some output row, no
\* output row carries an InvoiceID found in neither key column, and a row
\* whose key is absent from one table has that table's value missing.
C1_FullOuterJoin ==
    Returned =>
        /\ \A k \in InKeys : \E i \in 1..Len(Out) : Out[i].InvoiceID = k
        /\ \A i \in 1..Len(Out) :
            /\ Out[i].InvoiceID \in InKeys
            /\ Out[i].InvoiceID \notin KeysOf(InLeft) => isna(Out[i].Value1)
            /\ Out[i].InvoiceID \notin KeysOf(InRight) => isna(Out[i].Value2)

\* a returned join with a key on the left only, one on the right only and
\* one on both sides
C1_Witness ==
    /\ Returned
    /\ KeysOf(InLeft) \ KeysOf(InRight) # {}
    /\ KeysOf(InRight) \ KeysOf(InLeft) # {}
    /\ KeysOf(InLeft) \cap KeysOf(InRight) # {}

\* C2: in every output row Difference is Value1 minus Value2 when both are
\* present and missing when either is missing; Status is Match exactly when
\* Difference is missing or its absolute value is below the tolerance, and
\* Mismatch otherwise; a key found in only one table gets Match.
C2_DifferenceAndStatus ==
    Returned =>
        \A i \in 1..Len(Out) :
            LET r == Out[i]
                small == /\ r.Difference.t = "number"
                         /\ r.Difference.v < Epsilon
                         /\ 0 - r.Difference.v < Epsilon
            IN /\ (~isna(r.Value1) /\ ~isna(r.Value2))
                    => r.Difference = Num(r.Value1.v - r.Value2.v)
               /\ (isna(r.Value1) \/ isna(r.Value2)) => isna(r.Difference)
               /\ r.Status \in {"Match", "Mismatch"}
               /\ r.Status = "Match" <=> (isna(r.Difference) \/ small)
               /\ (r.InvoiceID \notin KeysOf(InLeft) \cap KeysOf(InRight))
                    => r.Status = "Match"

\* a returned result with a non-zero difference inside the tolerance, a
\* negative difference outside it and a row with one side missing
C2_Witness ==
    /\ Returned
    /\ \E i \in 1..Len(Out) :
        Out[i].Difference = Num(0 - 1) /\ Out[i].Status = "Match"
    /\ \E i \in 1..Len(Out) :
        /\ Out[i].Difference.t = "number" /\ Out[i].Difference.v < 0
        /\ Out[i].Status = "Mismatch"
    /\ \E i \in 1..Len(Out) :
        isna(Out[i].Value2) /\ ~isna(Out[i].Value1) /\ Out[i].Status = "Match"

AtBoundary(r) == r.Difference.t = "number" /\ Abs(r.Difference.v) = Epsilon

\* C3 as stated: a row whose |Difference| equals the tolerance is a Match.
C3_BoundaryIsMatch ==
    Returned =>
        \A i \in 1..Len(Out) : AtBoundary(Out[i]) => Out[i].Status = "Match"

\* C3 as amended: a row whose |Difference| equals the tolerance 1e-8 is
\* classified Mismatch; the comparison is strict, so the boundary is outside.
C3_BoundaryIsMismatch ==
    Returned =>
        \A i \in 1..Len(Out) : AtBoundary(Out[i]) => Out[i].Status = "Mismatch"

\* a returned result with a difference of +1e-8 and one of -1e-8
C3_Witness ==
    /\ Returned
    /\ \E i \in 1..Len(Out) : Out[i].Difference = Num(Epsilon)
    /\ \E i \in 1..Len(Out) : Out[i].Difference = Num(0 - Epsilon)

NoDuplicateKeys(rows) ==
    \A i, j \in 1..Len(rows) : rows[i].InvoiceID = rows[j].InvoiceID => i = j

\* C4: the summary of every result has total = matches + mismatches, and
\* when neither key column repeats a value (the missing marker counted as a
\* value) the total is the number of distinct key values of both columns.
C4_SummaryCounts ==
    Returned =>
        /\ shown.present
        /\ shown.total = Len(Out)
        /\ shown.total = shown.matches + shown.mismatches
        /\ (NoDuplicateKeys(InLeft) /\ NoDuplicateKeys(InRight))
             => shown.total = Cardinality(InKeys)

\* a summary with matches and mismatches over duplicate-free key columns
\* that share a key and include the missing key
C4_Witness ==
    /\ Returned
    /\ NoDuplicateKeys(InLeft) /\ NoDuplicateKeys(InRight)
    /\ shown.matches > 0 /\ shown.mismatches > 0
    /\ Cardinality(InKeys) = 3
    /\ Missing \in InKeys

HasTextValue(rows) == \E i \in 1..Len(rows) : isstr(rows[i].Value)

\* C5 as stated: a text cell in a value column does not abort the run; the
\* run returns and every row holding such a cell has a missing Difference
\* and Status Match.
C5_TextCellDoesNotAbort ==
    (/\ report # "none"
     /\ trig = Selection("ID", "Amt", "ID", "Amt")
     /\ HasTextValue(InLeft) \/ HasTextValue(InRight))
    => /\ Returned
       /\ \A i \in 1..Len(Out) :
            (isstr(Out[i].Value1) \/ isstr(Out[i].Value2))
                => isna(Out[i].Difference) /\ Out[i].Status = "Match"

\* C9: duplicate keys are neither dropped nor merged. A key on m >= 1 rows
\* of table 1 and n >= 1 rows of table 2 gives m*n output rows, one for each
\* pairing of a left row with a right row; a key on m rows of one table and
\* none of the other gives m rows.
C9_DuplicateKeysMultiply ==
    Returned =>
        \A k \in InKeys :
            LET m == Count(InLeft, LAMBDA r : r.InvoiceID = k)
                n == Count(InRight, LAMBDA r : r.InvoiceID = k)
            IN /\ Count(Out, LAMBDA r : r.InvoiceID = k) =
                    IF m = 0 THEN n ELSE IF n = 0 THEN m ELSE m * n
               /\ (m > 0 /\ n > 0) =>
                    \A i \in 1..Len(InLeft), j \in 1..Len(InRight) :
                        (InLeft[i].InvoiceID = k /\ InRight[j].InvoiceID = k) =>
                            Count(Out, LAMBDA r :
                                    /\ r.InvoiceID = k
                                    /\ r.Value1 = InLeft[i].Value
                                    /\ r.Value2 = InRight[j].Value)
                            = Count(InLeft, LAMBDA r :
                                    /\ r.InvoiceID = k
                                    /\ r.Value = InLeft[i].Value)
                              * Count(InRight, LAMBDA r :
                                    /\ r.InvoiceID = k
                                    /\ r.Value = InRight[j].Value)

\* a key on two rows of each table with different values, giving four rows
C9_Witness ==
    /\ Returned
    /\ \E k \in InKeys :
        /\ Count(InLeft, LAMBDA r : r.InvoiceID = k) = 2
        /\ Count(InRight, LAMBDA r : r.InvoiceID = k) = 2
        /\ Count(Out, LAMBDA r : r.InvoiceID = k) = 4
        /\ Cardinality({Out[i].Value1 : i \in 1..Len(Out)}) = 2
        /\ Cardinality({Out[i].Value2 : i \in 1..Len(Out)}) = 2

--------------------------------------------------------------------------
(* Properties of the session, checked under Spec *)

SelectionIsOfColumns ==
    /\ HasColumns(df1, trig.key1, trig.val1)
    /\ HasColumns(df2, trig.key2, trig.val2)

\* C6: a run whose key or value selection is not a column of its table ends
\* in a reported error; a failing run stores nothing and leaves the retained
\* result and both loaded tables as they were, so that a run retried after
\* it succeeds exactly when reconcile succeeds on those tables and then
\* stores that output.
C6_FailedRunAllOrNothing ==
    [][report' # "none" =>
        LET r == reconcile(df1, df2,
                           trig'.key1, trig'.val1, trig'.key2, trig'.val2)
        IN /\ (\/ ~HasColumns(df1, trig'.key1, trig'.val1)
               \/ ~HasColumns(df2, trig'.key2, trig'.val2))
                => report' = "error"
           /\ report' = "error" =>
                /\ recon_result' = recon_result
                /\ df1' = df1 /\ df2' = df2
                /\ df1'.loaded /\ df2'.loaded
           /\ report = "error" =>
                /\ report' = "success" <=> r.ok
                /\ report' = "success" => recon_result' = Stored(r.rows)
    ]_vars

\* a run with a selection that is no column has just failed while a result
\* of an earlier run is retained
C6_Witness ==
    /\ report = "error"
    /\ ~SelectionIsOfColumns
    /\ recon_result.present
    /\ df1.loaded /\ df2.loaded

\* C8 as stated: after a run trigger the retained result is the output of
\* that trigger on the loaded tables, nothing of an earlier run surviving.
C8_RetainsLatestTrigger ==
    report # "none" =>
        LET r == reconcile(df1, df2,
                           trig.key1, trig.val1, trig.key2, trig.val2)
        IN recon_result = IF r.ok THEN Stored(r.rows) ELSE NoResult

\* C8 as amended: the single slot changes only when a run succeeds, which
\* overwrites it with exactly that run's output on the tables loaded at the
\* trigger; a failed run, a file change and any other rerun leave the
\* retained result of the last successful run in place, and what a rerun
\* displays is the summary of the retained result.
C8_OverwrittenBySuccessfulRun ==
    [][LET r == reconcile(df1, df2,
                          trig'.key1, trig'.val1, trig'.key2, trig'.val2)
       IN /\ IF report' # "none" /\ r.ok
             THEN recon_result' = Stored(r.rows)
             ELSE recon_result' = recon_result
          /\ shown'.present => shown' = Summary(recon_result'.rows)
    ]_vars

\* a run on columns of the tables has just failed and the result of an
\* earlier successful run is still retained
C8_Witness ==
    /\ report = "error"
    /\ SelectionIsOfColumns
    /\ recon_result.present
    /\ Len(recon_result.rows) > 0

\* C10 as stated: every selection of key and value columns taken from the
\* columns of the loaded tables, the same column twice included, makes the
\* run return a result.
C10_ColumnSelectionsSucceed ==
    (report # "none" /\ SelectionIsOfColumns) => report = "success"

--------------------------------------------------------------------------
(* Properties of detect_header_row, checked under SpecHeader *)

\* the rows of the scenario: a title, an empty row, the header, a data row
ExampleRows ==
    << <<Text(1), Missing>>, <<Missing, Missing>>,
       <<Text(1), Text(1)>>, <<Text(1), Num(1)>> >>

\* C7: the locator looks at the first 20 rows only, in order, and returns
\* the index of the first row with at least 2 non-missing cells and only
\* missing or text cells; it returns 0 when no row of the window qualifies
\* or the sheet cannot be read; for the scenario rows it returns 2.
C7_HeaderLocator ==
    LET rows == sheet.rows
        last == (IF Len(rows) < 20 THEN Len(rows) ELSE 20) - 1
        Q(i) == /\ Cardinality({c \in 1..Len(rows[i + 1]) :
                                    rows[i + 1][c].t # "missing"}) >= 2
                /\ \A c \in 1..Len(rows[i + 1]) :
                        rows[i + 1][c].t \in {"missing", "text"}
    IN /\ ~sheet.readable => header = 0
       /\ (\A i \in 0..last : ~Q(i)) => header = 0
       /\ (\E i \in 0..last : Q(i)) =>
            /\ header \in 0..last
            /\ Q(header)
            /\ \A j \in 0..last : Q(j) => header <= j
       /\ detect_header_row(Readable(ExampleRows)) = 2

\* the scenario on a three-column sheet: title, empty row, header, data row
C7_Witness ==
    /\ sheet.readable
    /\ Len(sheet.rows) = 4
    /\ sheet.rows[1] = BannerRow
    /\ sheet.rows[2] = BlankRow
    /\ sheet.rows[3] = <<Text(1), Text(1), Missing>>
    /\ sheet.rows[4] = <<Text(1), Num(1), Missing>>
    /\ header = 2

====
